---------------------------- MODULE Spec2Model ----------------------------
(***************************************************************************)
(* A model of rosetta's fetch-and-cache subsystem (src/rosetta/fetch.py).  *)
(*                                                                         *)
(* Strings are TLA+ strings; TLC evaluates Len, Head, Tail, SubSeq and \o  *)
(* on them, so the string functions of the source (sanitize, the          *)
(* content-type lookup, the URL routing, the video-id patterns) are        *)
(* computed character by character as the source computes them.           *)
(***************************************************************************)
EXTENDS Integers, Sequences, FiniteSets, TLC

VARIABLES
    disk,      \* the file system: path of a directory |-> its entries
    calls,     \* number of fetch_utf8 calls the batch has made
    running,   \* FALSE once an exception has left fetch_utf8 (the script dies)
    prev,      \* record of the call before the last one
    last,      \* record of the last call
    arg,       \* pure-function specifications: the input
    res,       \* ... the function applied once
    res2,      \* ... the function applied to its own result
    phase,     \* ... "input", "once", "twice"
    job,       \* concurrent callers: the URL they fetch and the world's answer
    pc,        \* ... each caller's position in fetch_online
    ret        \* ... what fetch_online handed each caller

fsVars   == <<disk, calls, running, prev, last>>
pureVars == <<arg, res, res2, phase>>
raceVars == <<job, pc, ret>>
vars     == <<disk, calls, running, prev, last, arg, res, res2, phase,
              job, pc, ret>>

None == "<None>"

-----------------------------------------------------------------------------
(* Strings *)

CharAt(s, i) == SubSeq(s, i, i)

\* Python's `a in b` on strings
Contains(b, a) ==
    \E i \in 0..(Len(b) - Len(a)) : SubSeq(b, i + 1, i + Len(a)) = a

StartsWith(s, p) == Len(p) <= Len(s) /\ SubSeq(s, 1, Len(p)) = p

EndsWith(s, p) ==
    Len(p) <= Len(s) /\ SubSeq(s, Len(s) - Len(p) + 1, Len(s)) = p

Letters ==
    {"a","b","c","d","e","f","g","h","i","j","k","l","m",
     "n","o","p","q","r","s","t","u","v","w","x","y","z",
     "A","B","C","D","E","F","G","H","I","J","K","L","M",
     "N","O","P","Q","R","S","T","U","V","W","X","Y","Z"}

Digits == {"0","1","2","3","4","5","6","7","8","9"}

\* the regular expression class \w
WordChars == Letters \cup Digits \cup {"_"}

\* c * n, by halves (the recursion stays shallow)
RECURSIVE Repeat(_, _)
Repeat(c, n) ==
    IF n <= 0 THEN ""
    ELSE IF n = 1 THEN c
    ELSE Repeat(c, n \div 2) \o Repeat(c, n - (n \div 2))

RECURSIVE StringsUpTo(_, _)
StringsUpTo(alphabet, n) ==
    IF n = 0 THEN {""}
    ELSE LET S == StringsUpTo(alphabet, n - 1)
         IN  S \cup {s \o c : s \in S, c \in alphabet}

Substrings(s) ==
    {SubSeq(s, i, j) : i \in 1..(Len(s) + 1), j \in 0..Len(s)}

-----------------------------------------------------------------------------
(* sanitize *)

max_filename_length == 255

\* the characters the class [^\w\-_.] leaves alone
FilenameChars == WordChars \cup {"-", "_", "."}

\* re.sub(r'[^\w\-_.]', '_', filename), over the characters lo..hi by halves
RECURSIVE ReplaceRange(_, _, _)
ReplaceRange(s, lo, hi) ==
    IF lo > hi THEN ""
    ELSE IF lo = hi
         THEN (IF CharAt(s, lo) \in FilenameChars THEN CharAt(s, lo) ELSE "_")
    ELSE LET mid == (lo + hi) \div 2
         IN  ReplaceRange(s, lo, mid) \o ReplaceRange(s, mid + 1, hi)

ReplaceDisallowed(s) == ReplaceRange(s, 1, Len(s))

\* re.sub(r'__+', '_', s): of every run of underscores the first one is kept
RECURSIVE CollapseRange(_, _, _)
CollapseRange(s, lo, hi) ==
    IF lo > hi THEN ""
    ELSE IF lo = hi
         THEN (IF CharAt(s, lo) = "_" /\ lo > 1 /\ CharAt(s, lo - 1) = "_"
               THEN "" ELSE CharAt(s, lo))
    ELSE LET mid == (lo + hi) \div 2
         IN  CollapseRange(s, lo, mid) \o CollapseRange(s, mid + 1, hi)

CollapseUnderscores(s) == CollapseRange(s, 1, Len(s))

\* s.strip(c)
Strip(s, c) ==
    LET keep == {i \in 1..Len(s) : CharAt(s, i) # c}
        lo   == CHOOSE i \in keep : \A j \in keep : i <= j
        hi   == CHOOSE i \in keep : \A j \in keep : j <= i
    IN  IF keep = {} THEN "" ELSE SubSeq(s, lo, hi)

\* s[:n]
Truncate(s, n) == SubSeq(s, 1, IF Len(s) <= n THEN Len(s) ELSE n)

sanitize(filename) ==
    Truncate(Strip(CollapseUnderscores(ReplaceDisallowed(filename)), "_"),
             max_filename_length)

-----------------------------------------------------------------------------
(* Fetch._get_extension *)

\* mapping.items(), in the dict's insertion order
mapping ==
    << <<"text/html", ".html">>,
       <<"application/json", ".json">>,
       <<"text/plain", ".txt">>,
       <<"application/pdf", ".pdf">> >>

\* for k, ext in mapping.items(): if content_type in k: return ext
RECURSIVE FirstMatch(_, _)
FirstMatch(content_type, i) ==
    IF i > Len(mapping) THEN ".txt"
    ELSE IF Contains(mapping[i][1], content_type) THEN mapping[i][2]
    ELSE FirstMatch(content_type, i + 1)

_get_extension(content_type) == FirstMatch(content_type, 1)

-----------------------------------------------------------------------------
(* Paths and the file system *)

\* the last index of character c in s, 0 if there is none (str.rfind, 1-based)
RFind(s, c) ==
    LET I == {i \in 1..Len(s) : CharAt(s, i) = c}
    IN  IF I = {} THEN 0 ELSE CHOOSE i \in I : \A j \in I : j <= i

\* pathlib: a / b
PathJoin(a, b) ==
    IF b = "" THEN a
    ELSE IF StartsWith(b, "/") THEN b
    ELSE a \o "/" \o b

\* pathlib: PurePath.name and PurePath.parent
BaseName(path) == SubSeq(path, RFind(path, "/") + 1, Len(path))
DirName(path)  == SubSeq(path, 1, RFind(path, "/") - 1)

\* pathlib: PurePath.suffix, '' unless 0 < name.rfind('.') < len(name) - 1
Suffix(path) ==
    LET name == BaseName(path)
        i    == RFind(name, ".")
    IN  IF 1 < i /\ i < Len(name) THEN SubSeq(name, i, Len(name)) ELSE ""

FILETYPES ==
    {".pdf",
     ".py", ".pyc", ".ipynb",
     ".txt", ".md", ".org",
     ".java",
     ".c", ".h", ".cpp",
     ".js", ".html", ".css", ".ts", ".jsx",
     ".hs"}

\* an entry of a directory; bytes are abstract: what they were made from
\* (form, body) and whether they are valid UTF-8
File(name, form, body, utf8) ==
    [name |-> name, kind |-> "file", form |-> form, body |-> body, utf8 |-> utf8]

SubDir(name) ==
    [name |-> name, kind |-> "dir", form |-> "-", body |-> "-", utf8 |-> TRUE]

EmptyDisk == [d \in {} |-> {}]

is_dir(d, path) ==
    \/ path \in DOMAIN d
    \/ \E q \in DOMAIN d : \E e \in d[q] :
          e.kind = "dir" /\ PathJoin(q, e.name) = path

is_file(d, path) ==
    \E q \in DOMAIN d : \E e \in d[q] :
        e.kind = "file" /\ PathJoin(q, e.name) = path

\* Path.exists / os.path.exists
exists(d, path) == is_dir(d, path) \/ is_file(d, path)

\* os.makedirs(path, exist_ok=True)
makedirs(d, path) ==
    [q \in DOMAIN d \cup {path} |-> IF q \in DOMAIN d THEN d[q] ELSE {}]

\* the entries a directory lists (a directory the model does not look into
\* lists nothing)
iterdir(d, path) == IF path \in DOMAIN d THEN d[path] ELSE {}

\* with open(file_path, 'w' or 'wb') as fp: fp.write(...)
\* The result: the disk, and the exception open raised (None: none)
WriteFile(d, file_path, form, body) ==
    LET parent == DirName(file_path)
        name   == BaseName(file_path)
    IN  IF is_dir(d, file_path)
        THEN [disk |-> d, exc |-> "IsADirectoryError"]
        ELSE IF parent \notin DOMAIN d
        THEN [disk |-> d, exc |-> "FileNotFoundError"]
        ELSE [disk |-> [d EXCEPT ![parent] =
                          {e \in @ : e.name # name}
                          \cup {File(name, form, body, TRUE)}],
              exc  |-> None]

\* a (path, BytesIO) pair
Fetched(path, e) ==
    [path |-> path, form |-> e.form, body |-> e.body, utf8 |-> e.utf8]

\* what a function hands back: a value, or the exception that left it
Return(d, files, logs, asked) ==
    [disk |-> d, ok |-> TRUE, files |-> files, exc |-> None,
     logs |-> logs, asked |-> asked, read |-> FALSE]

Raise(d, exc, logs, asked) ==
    [disk |-> d, ok |-> FALSE, files |-> {}, exc |-> exc,
     logs |-> logs, asked |-> asked, read |-> FALSE]

LogUnsupported == "WARNING Unsupported path or filetype"

\* read_from_disk: the list is modelled as the set of its pairs (its order is
\* the directory's iteration order)
read_from_disk(d, path) ==
    IF is_dir(d, path)
    THEN LET listed == {e \in iterdir(d, path) : Suffix(e.name) \in FILETYPES}
         IN  IF \E e \in listed : e.kind = "dir"
             THEN \* open() of a directory
                  [ok |-> FALSE, files |-> {}, exc |-> "IsADirectoryError",
                   logs |-> {}]
             ELSE [ok |-> TRUE,
                   files |-> {Fetched(PathJoin(path, e.name), e) : e \in listed},
                   exc |-> None, logs |-> {}]
    ELSE IF is_file(d, path) /\ Suffix(path) \in FILETYPES
    THEN LET e == CHOOSE e \in iterdir(d, DirName(path)) :
                      e.name = BaseName(path)
         IN  [ok |-> TRUE, files |-> {Fetched(path, e)}, exc |-> None,
              logs |-> {}]
    ELSE [ok |-> TRUE, files |-> {}, exc |-> None, logs |-> {LogUnsupported}]

-----------------------------------------------------------------------------
(* What the world answers to the one request a call makes *)

\* kind: "none" (no request), "clone" (Repo.clone_from), "video" (the page of
\* get_video_title, then YouTubeTranscriptApi.get_transcript), "get"
\* (requests.get of the generic downloader)
Answer(kind, clone, page, transcript, neterr, status, ctype, html) ==
    [kind |-> kind, clone |-> clone, page |-> page, transcript |-> transcript,
     neterr |-> neterr, status |-> status, ctype |-> ctype, html |-> html]

NoRequest == Answer("none", "-", "-", "-", "-", 0, "-", "-")

\* the working tree a clone leaves, by name
RepoTree(t) ==
    CASE t = "code"  -> {SubDir(".git"), SubDir("src"),
                         File("README.md", "raw", "readme", TRUE),
                         File("main.py", "raw", "main", FALSE)}
      [] t = "docs"  -> {SubDir(".git"),
                         File("doc.pdf", "raw", "pdf", FALSE),
                         File("notes.exe", "raw", "exe", FALSE)}
      [] t = "latin" -> {SubDir(".git"),
                         File("latin1.txt", "raw", "latin", FALSE)}
      [] t = "site"  -> {SubDir(".git"), SubDir("next.js"),
                         File("index.html", "raw", "index", TRUE)}
      [] t = "notebook" -> {SubDir(".git"),
                            File("analysis.ipynb", "raw", "cells", TRUE),
                            File("notes.md", "raw", "notes", FALSE)}

RepoTrees == {"code", "docs", "latin", "site", "notebook"}

CloneAnswers ==
    {Answer("clone", c, "-", "-", "-", 0, "-", "-") : c \in RepoTrees \cup {"fail"}}

\* the video page: with an og:title meta tag, without one, or unreachable
VideoAnswers ==
    {Answer("video", "-", "og:title", "lines", "-", 0, "-", "-"),
     Answer("video", "-", "og:title", "fail", "-", 0, "-", "-"),
     Answer("video", "-", "no meta", "lines", "-", 0, "-", "-"),
     Answer("video", "-", "-", "-", "ConnectionError", 0, "-", "-")}

\* the Content-Type headers the servers of the model send ('' where the
\* response carries none: response.headers.get('Content-Type', ''))
ContentTypes ==
    {"text/html", "text/html; charset=utf-8", "text/plain; charset=utf-8",
     "application/json", "application/pdf", ""}

\* the content types whose body is an HTML document
HtmlTypes == {"text/html", "text/html; charset=utf-8", ""}

\* what the HTML of a response offers as a title
HtmlTitles == {"og:title", "title", "none"}

GetAnswers ==
    {Answer("get", "-", "-", "-", e, 0, "-", "-") :
        e \in {"SSLError", "ConnectionError"}}
    \cup {Answer("get", "-", "-", "-", "-", st, "text/html", "none") :
            st \in {404, 500}}
    \cup {Answer("get", "-", "-", "-", "-", 200, c, h) :
            c \in HtmlTypes, h \in HtmlTitles}
    \cup {Answer("get", "-", "-", "-", "-", 200, c, "none") :
            c \in ContentTypes \ HtmlTypes}

Answers == {NoRequest} \cup CloneAnswers \cup VideoAnswers \cup GetAnswers

-----------------------------------------------------------------------------
(* Youtube *)

IdChars == Letters \cup Digits \cup {"_", "-"}

\* the literal each pattern of regex_patterns starts with, before
\* ([a-zA-Z0-9_-]{11}); the fifth pattern (URL with timestamp) starts like the
\* first and captures the same group, so the first always answers for it
regex_patterns ==
    <<"youtube.com/watch?v=", "youtu.be/", "youtube.com/embed/", "youtube.com/v/">>

MatchAt(url, lit, i) ==
    /\ i + Len(lit) + 10 <= Len(url)
    /\ SubSeq(url, i, i + Len(lit) - 1) = lit
    /\ \A k \in 0..10 : CharAt(url, i + Len(lit) + k) \in IdChars

\* re.search(pattern, url): the leftmost match's group(1), or None
Search(url, lit) ==
    LET I == {i \in 1..Len(url) : MatchAt(url, lit, i)}
        i == CHOOSE i \in I : \A j \in I : i <= j
    IN  IF I = {} THEN None
        ELSE SubSeq(url, i + Len(lit), i + Len(lit) + 10)

RECURSIVE FirstPattern(_, _)
FirstPattern(url, n) ==
    IF n > Len(regex_patterns) THEN None
    ELSE IF Search(url, regex_patterns[n]) # None
         THEN Search(url, regex_patterns[n])
         ELSE FirstPattern(url, n + 1)

extract_video_id(url) == FirstPattern(url, 1)

VideoTitle == "Never Gonna: Give (Official)"

\* get_video_title: soup.find('meta', property="og:title")["content"].
\* It returns the title, or raises: requests' error, or TypeError when find
\* returns None and None is subscripted. It never returns None.
get_video_title(o) ==
    IF o.neterr # "-" THEN [ok |-> FALSE, value |-> None, exc |-> o.neterr]
    ELSE IF o.page = "og:title"
         THEN [ok |-> TRUE, value |-> VideoTitle, exc |-> None]
         ELSE [ok |-> FALSE, value |-> None, exc |-> "TypeError"]

TranscriptLines == <<"never gonna", "give you up">>

\* for line in transcript: full_transcript += " " + line['text']
RECURSIVE JoinLines(_, _)
JoinLines(lines, n) ==
    IF n = 0 THEN "" ELSE JoinLines(lines, n - 1) \o " " \o lines[n]

-----------------------------------------------------------------------------
(* The sources of the batch *)

Source(title, uri) == [title |-> title, uri |-> uri]

GutenbergUrl == "https://www.gutenberg.org/cache/epub/5/pg5.txt"
ArxivUrl     == "https://arxiv.org/abs/1706.03762"
SlashUrl     == "https://example.com/a"
GithubUrl    == "https://github.com/uniteai/rosetta"
VideoUrl     == "https://youtu.be/dQw4w9WgXcQ"
PlaylistUrl  == "https://www.youtube.com/playlist?list=PL1"
LocalUri     == "file:///srv/docs"

\* the (title, url) pairs of a `files` list
Sources ==
    {Source("The Constitution of the USA", GutenbergUrl),
     Source(None, ArxivUrl),
     Source("AC/DC", SlashUrl),
     Source(None, GithubUrl),
     Source(None, VideoUrl),
     Source(None, PlaylistUrl),
     Source(None, LocalUri)}

-----------------------------------------------------------------------------
(* Fetch: the downloaders *)

cache_dir == "data/fetch_cache"

\* str.replace(old, new)
RECURSIVE Replace(_, _, _)
Replace(s, old, new) ==
    IF Len(s) < Len(old) THEN s
    ELSE IF StartsWith(s, old)
         THEN new \o Replace(SubSeq(s, Len(old) + 1, Len(s)), old, new)
         ELSE Head(s) \o Replace(Tail(s), old, new)

_preprocess_url(url) ==
    IF Contains(url, "arxiv.org") THEN Replace(url, "abs", "pdf") ELSE url

\* The string functions of a call, evaluated once for each string of the
\* batch and looked up afterwards (the value is the function's own)
PreprocessedUrls == {<<src.uri, _preprocess_url(src.uri)>> : src \in Sources}

SanitizedNames ==
    {<<p[2], sanitize(p[2])>> : p \in PreprocessedUrls}
    \cup {<<VideoTitle, sanitize(VideoTitle)>>}

VideoIds == {<<p[2], extract_video_id(p[2])>> : p \in PreprocessedUrls}

Lookup(table, x) == (CHOOSE p \in table : p[1] = x)[2]

preprocessed(url) ==
    IF \E p \in PreprocessedUrls : p[1] = url
    THEN Lookup(PreprocessedUrls, url)
    ELSE _preprocess_url(url)

sanitized(name) ==
    IF \E p \in SanitizedNames : p[1] = name
    THEN Lookup(SanitizedNames, name)
    ELSE sanitize(name)

video_id_of(url) ==
    IF \E p \in VideoIds : p[1] = url
    THEN Lookup(VideoIds, url)
    ELSE extract_video_id(url)

\* what a downloader leaves: the disk, the exception that left it (None:
\* none), whether fetch_online returns [] at once, its log, its request
Downloaded(d, exc, early, logs, asked) ==
    [disk |-> d, exc |-> exc, early |-> early, logs |-> logs, asked |-> asked]

\* a clone failure caught and logged, as the video branch does with its own
\* (a variant of CloneFailed, checked against C4)
CloneFailedCaught(made) ==
    Downloaded(made, None, FALSE, {"ERROR An error occurred:"}, "clone")

\* Repo.clone_from raises: nothing encloses the call, the exception leaves
\* fetch_online
CloneFailed(made) == Downloaded(made, "GitCommandError", FALSE, {}, "clone")

\* Github: os.makedirs(dir_path, exist_ok=True); Repo.clone_from(url, dir_path)
GitDownload(d, url, dir_path, o) ==
    IF o.clone \in RepoTrees
    THEN Downloaded([makedirs(d, dir_path) EXCEPT ![dir_path] = RepoTree(o.clone)],
                    None, FALSE, {}, "clone")
    ELSE CloneFailed(makedirs(d, dir_path))

LogNoVideoId == "ERROR Could not extract video ID from URL"
LogOccurred  == "ERROR An error occurred:"

\* the directory made before the identifier is looked at (a variant of
\* NoVideoId, checked against C5)
NoVideoIdAfterMakedirs(d, dir_path) ==
    Downloaded(makedirs(d, dir_path), None, FALSE, {LogNoVideoId}, "none")

\* `if not video_id: logging.error(...); return`, before any request and
\* before os.makedirs
NoVideoId(d, dir_path) == Downloaded(d, None, FALSE, {LogNoVideoId}, "none")

\* Youtube: every exception inside the try is caught and logged
VideoDownload(d, url, dir_path, o) ==
    LET video_id == video_id_of(url)
        got      == get_video_title(o)
        title    == IF got.value # None THEN sanitized(got.value) ELSE video_id
        file_path == PathJoin(dir_path, title \o ".txt")
        written  == WriteFile(makedirs(d, dir_path), file_path, "text",
                              JoinLines(TranscriptLines, Len(TranscriptLines)))
    IN  IF video_id = None
        THEN NoVideoId(d, dir_path)
        ELSE IF ~got.ok
        THEN Downloaded(d, None, FALSE, {LogOccurred}, "video")
        ELSE IF o.transcript # "lines"
        THEN Downloaded(d, None, FALSE, {LogOccurred}, "video")
        ELSE IF written.exc # None
        THEN Downloaded(makedirs(d, dir_path), None, FALSE, {LogOccurred}, "video")
        ELSE Downloaded(written.disk, None, FALSE, {}, "video")

PageTitle == "Project Gutenberg"

\* "infer title" of the HTML branch, entered when title is None: a meta tag
\* that is found is replaced by its content, a str, and the following
\* `meta_title.getText()` then raises AttributeError on it
InferTitle(o) ==
    IF o.html = "og:title"
    THEN [ok |-> FALSE, value |-> None, exc |-> "AttributeError"]
    ELSE IF o.html = "title"
    THEN [ok |-> TRUE, value |-> PageTitle, exc |-> None]
    ELSE [ok |-> TRUE, value |-> None, exc |-> None]

LogSSL      == "ERROR SSLError"
LogNotFound == "ERROR NOT FOUND"

\* response.raise_for_status() in place of the branch on the status (a
\* variant of NotFound, checked against C3)
NotFoundRaises(d) == Downloaded(d, "HTTPError", FALSE, {}, "get")

\* `else: logging.error('NOT FOUND ...')` of `if response.status_code == 200`
NotFound(d) == Downloaded(d, None, FALSE, {LogNotFound}, "get")

\* Other: requests.get, then a branch by the extension of the content type
HttpDownload(d, title, url, url_sane, dir_path, o) ==
    LET file_ext == _get_extension(o.ctype)
        inferred == IF file_ext = ".html" /\ title = None
                    THEN InferTitle(o)
                    ELSE [ok |-> TRUE, value |-> title, exc |-> None]
        named    == IF inferred.value = None THEN url_sane ELSE inferred.value
        form     == IF file_ext = ".html" THEN "visible text"
                    ELSE IF file_ext = ".pdf" THEN "raw"
                    ELSE "text"
        written  == WriteFile(makedirs(d, dir_path),
                              PathJoin(dir_path, named \o file_ext), form, url)
    IN  IF o.neterr = "SSLError"
        THEN Downloaded(d, None, TRUE, {LogSSL}, "get")
        ELSE IF o.neterr # "-"
        THEN Downloaded(d, o.neterr, FALSE, {}, "get")
        ELSE IF o.status # 200
        THEN NotFound(d)
        ELSE IF ~inferred.ok
        THEN Downloaded(d, inferred.exc, FALSE, {}, "get")
        ELSE Downloaded(written.disk, written.exc, FALSE, {}, "get")

\* "Save if not cached": the branch by URL
Download(d, title, url, url_sane, dir_path, o) ==
    IF Contains(url, "github.com")
    THEN GitDownload(d, url, dir_path, o)
    ELSE IF Contains(url, "youtube.com") \/ Contains(url, "youtu.be")
    THEN VideoDownload(d, url, dir_path, o)
    ELSE HttpDownload(d, title, url, url_sane, dir_path, o)

\* a cache that never finds the directory (a variant of IsCached, checked
\* against C1)
IsCachedNever(d, dir_path) == FALSE

\* `dir_path.exists()`: the cache hit
IsCached(d, dir_path) == exists(d, dir_path)

-----------------------------------------------------------------------------
(* Fetch: fetch_online, fetch_offline, fetch, fetch_utf8 *)

LogFetching == "INFO URL hasnt been cached, fetching"

\* "Read back from disk": `return read_from_disk(dir_path)`, given what the
\* read found (rd) after the downloader left dl
ReadBack(dl, rd, logs) ==
    [IF ~rd.ok THEN Raise(dl.disk, rd.exc, logs \cup rd.logs, dl.asked)
               ELSE Return(dl.disk, rd.files, logs \cup rd.logs, dl.asked)
        EXCEPT !.read = TRUE]

\* fetch_online after "Save if not cached" left dl
AfterDownload(dl, dir_path, logs) ==
    IF dl.exc # None THEN Raise(dl.disk, dl.exc, logs \cup dl.logs, dl.asked)
    ELSE IF dl.early THEN Return(dl.disk, {}, logs \cup dl.logs, dl.asked)
    ELSE ReadBack(dl, read_from_disk(dl.disk, dir_path), logs \cup dl.logs)

fetch_online(d, title, url0, o) ==
    LET url      == preprocessed(url0)
        url_sane == sanitized(url)
        dir_path == PathJoin(cache_dir, url_sane)
    IN  IF IsCached(d, dir_path)
        THEN AfterDownload(Downloaded(d, None, FALSE, {}, "none"), dir_path, {})
        ELSE AfterDownload(Download(d, title, url, url_sane, dir_path, o),
                           dir_path, {LogFetching})

home == "/home/user"

\* os.path.expanduser
expanduser(uri) ==
    IF uri = "~" \/ StartsWith(uri, "~/")
    THEN home \o SubSeq(uri, 2, Len(uri))
    ELSE uri

normalize_local_uri(uri) ==
    expanduser(IF StartsWith(uri, "file://")
               THEN SubSeq(uri, Len("file://") + 1, Len(uri))
               ELSE uri)

is_local_uri(d, uri) == exists(d, normalize_local_uri(uri))

LogNoLocalPath == "ERROR Local path does not exist"

fetch_offline(d, uri) ==
    LET dir_path == normalize_local_uri(uri)
    IN  IF ~exists(d, dir_path) THEN Return(d, {}, {LogNoLocalPath}, "none")
        ELSE ReadBack(Downloaded(d, None, FALSE, {}, "none"),
                      read_from_disk(d, dir_path), {})

fetch(d, title, uri, o) ==
    IF is_local_uri(d, uri) THEN fetch_offline(d, uri)
    ELSE fetch_online(d, title, uri, o)

\* read_unicode(file_path, buf). Neither PdfReader nor convert_ipynb_to_py is
\* imported or defined in the module: reaching either name raises NameError.
read_unicode(f) ==
    LET suffix == Suffix(f.path)
    IN  IF suffix = ".pdf"
        THEN [ok |-> FALSE, text |-> None, exc |-> "NameError"]
        ELSE IF suffix = ".html"
        THEN [ok |-> TRUE, text |-> <<"soup.get_text", f.form, f.body>>,
              exc |-> None]
        ELSE IF suffix = ".txt" \/ suffix = ".json"
        THEN IF f.utf8
             THEN [ok |-> TRUE, text |-> <<"decode", f.form, f.body>>,
                   exc |-> None]
             ELSE [ok |-> FALSE, text |-> None, exc |-> "UnicodeDecodeError"]
        ELSE IF suffix = ".txt" \/ suffix = ".ipynb"
        THEN [ok |-> FALSE, text |-> None, exc |-> "NameError"]
        ELSE [ok |-> TRUE, text |-> <<"decode ignore", f.form, f.body>>,
              exc |-> None]

\* fetch_utf8: the record of one call. excs holds the exception that left the
\* call; when several files would raise, which one does is the directory's
\* iteration order, and excs holds each candidate
\* the loop of fetch_utf8 over the pairs r that fetch returned
Normalized(r, local) ==
    LET failed == {f \in r.files : ~read_unicode(f).ok}
    IN  [disk    |-> r.disk,
         local   |-> local,
         asked   |-> r.asked,
         read    |-> r.read,
         logs    |-> r.logs,
         fetched |-> r.ok,
         files   |-> r.files,
         ok      |-> r.ok /\ failed = {},
         docs    |-> IF r.ok /\ failed = {}
                     THEN {<<f.path, read_unicode(f).text>> : f \in r.files}
                     ELSE {},
         excs    |-> IF ~r.ok THEN {r.exc}
                     ELSE {read_unicode(f).exc : f \in failed}]

fetch_utf8(d, title, uri, o) ==
    Normalized(fetch(d, title, uri, o), is_local_uri(d, uri))

-----------------------------------------------------------------------------
(* The batch: fetch_utf8 called on one source after another *)

MaxCalls == 2

\* the disk before the first run: no cache, and one local directory
InitialDisk ==
    [q \in {"/srv/docs"} |->
        {File("doc.pdf", "raw", "pdf", FALSE),
         File("notes.exe", "raw", "exe", FALSE)}]

PureIdle ==
    /\ arg = None
    /\ res = None
    /\ res2 = None
    /\ phase = "-"

RaceIdle ==
    /\ job = None
    /\ pc = None
    /\ ret = None

\* the record kept of a call: its source, the world's answer, and what
\* fetch_utf8 did
Call(src, o, r) ==
    [source  |-> src,
     answer  |-> o,
     made    |-> TRUE,
     local   |-> r.local,
     read    |-> r.read,
     logs    |-> r.logs,
     fetched |-> r.fetched,
     files   |-> r.files,
     ok      |-> r.ok,
     docs    |-> r.docs,
     excs    |-> r.excs]

NoCall ==
    [source |-> Source(None, ""), answer |-> NoRequest, made |-> FALSE,
     local |-> FALSE, read |-> FALSE, logs |-> {}, fetched |-> TRUE,
     files |-> {}, ok |-> TRUE, docs |-> {}, excs |-> {}]

\* what is remembered of the call before the last one
Summary(c) ==
    [source  |-> c.source,
     made    |-> c.made,
     local   |-> c.local,
     request |-> c.answer.kind,
     status  |-> c.answer.status,
     logs    |-> c.logs,
     fetched |-> c.fetched,
     empty   |-> c.files = {},
     ok      |-> c.ok]

Init ==
    /\ disk = InitialDisk
    /\ calls = 0
    /\ running = TRUE
    /\ prev = Summary(NoCall)
    /\ last = NoCall
    /\ PureIdle
    /\ RaceIdle

\* the request a call makes does not depend on the answer it gets
Asked(d, src) == fetch_utf8(d, src.title, src.uri, NoRequest).asked

\* what the iteration on src leaves when fetch_utf8 did r
Iteration(src, o, r) ==
    /\ disk' = r.disk
    /\ prev' = Summary(last)
    /\ last' = Call(src, o, r)
    /\ running' = r.ok
    /\ calls' = calls + 1

\* one iteration of `for title, url in files: docs = fetch.fetch_utf8(title, url)`
\* An exception that leaves fetch_utf8 ends the run of the script.
FetchUtf8 ==
    /\ running
    /\ calls < MaxCalls
    /\ \E src \in Sources :
          \E o \in {a \in Answers : a.kind = Asked(disk, src)} :
             Iteration(src, o, fetch_utf8(disk, src.title, src.uri, o))
    /\ UNCHANGED <<pureVars, raceVars>>

\* the script is run again; the cache on disk is what the last run left
Restart ==
    /\ ~running
    /\ running' = TRUE
    /\ UNCHANGED <<disk, calls, prev, last, pureVars, raceVars>>

Next == FetchUtf8 \/ Restart

Spec == Init /\ [][Next]_vars

-----------------------------------------------------------------------------
(* The specification of sanitize as a pure function *)

MaxTail == 3

SanitizeAlphabet == {"a", "_", " ", ".", "-"}

PadLens == {0} \cup ((max_filename_length - 2)..(max_filename_length + 1))

SanitizeInputs ==
    {Repeat("a", n) \o t : n \in PadLens, t \in StringsUpTo(SanitizeAlphabet, MaxTail)}

FsIdle ==
    /\ disk = EmptyDisk
    /\ calls = 0
    /\ running = TRUE
    /\ prev = Summary(NoCall)
    /\ last = NoCall

InitSanitize ==
    /\ arg \in SanitizeInputs
    /\ res = None
    /\ res2 = None
    /\ phase = "input"
    /\ FsIdle
    /\ RaceIdle

ApplySanitize ==
    /\ phase = "input"
    /\ res' = sanitize(arg)
    /\ phase' = "once"
    /\ UNCHANGED <<arg, res2, fsVars, raceVars>>

ReapplySanitize ==
    /\ phase = "once"
    /\ res2' = sanitize(res)
    /\ phase' = "twice"
    /\ UNCHANGED <<arg, res, fsVars, raceVars>>

NextSanitize == ApplySanitize \/ ReapplySanitize

SpecSanitize == InitSanitize /\ [][NextSanitize]_vars

-----------------------------------------------------------------------------
(* The specification of _get_extension as a pure function *)

ContentTypeParams == {"; charset=utf-8", "; charset=ISO-8859-1", ";q=0.9", " "}

ContentTypeInputs ==
    UNION {Substrings(mapping[i][1]) : i \in 1..Len(mapping)}
    \cup {mapping[i][1] \o p : i \in 1..Len(mapping),
                                p \in ContentTypeParams}
    \cup {"image/png", "text/css", "application/xhtml+xml", "text/htmlx"}

InitExtension ==
    /\ arg \in ContentTypeInputs
    /\ res = None
    /\ res2 = None
    /\ phase = "input"
    /\ FsIdle
    /\ RaceIdle

ApplyGetExtension ==
    /\ phase = "input"
    /\ res' = _get_extension(arg)
    /\ phase' = "once"
    /\ UNCHANGED <<arg, res2, fsVars, raceVars>>

NextExtension == ApplyGetExtension

SpecExtension == InitExtension /\ [][NextExtension]_vars


-----------------------------------------------------------------------------
(* Two callers in fetch_online at once, for one URL, on a cold cache.      *)
(* fetch_online takes no lock: each step below is one call the function   *)
(* makes on the file system or the network, and the callers' steps        *)
(* interleave freely.                                                     *)

Callers == {"A", "B"}

\* what one caller alone gets for a job on the cold cache
Lone(j) == fetch_online(InitialDisk, j.src.title, j.src.uri, j.o)

\* the jobs whose download succeeds: a URL that is fetched online, an answer
\* to the request it makes, and a lone call that returns files
Jobs ==
    {j \in [src : Sources, o : Answers] :
        /\ ~is_local_uri(InitialDisk, j.src.uri)
        /\ j.o.kind # "none"
        /\ j.o.kind = Asked(InitialDisk, j.src)
        /\ Lone(j).ok
        /\ Lone(j).files # {}}

\* `dir_path = self.cache_dir / url_sane`
RaceDir == PathJoin(cache_dir, sanitized(preprocessed(job.src.uri)))

\* the file the video and the generic branches write (they write one)
RaceFile == CHOOSE f \in Lone(job).files : TRUE

NotReturned == [ok |-> TRUE, files |-> {}, exc |-> None]

Handed(rd) == [ok |-> rd.ok, files |-> rd.files, exc |-> rd.exc]

InitRace ==
    /\ disk = InitialDisk
    /\ calls = 0
    /\ running = TRUE
    /\ prev = Summary(NoCall)
    /\ last = NoCall
    /\ PureIdle
    /\ job \in Jobs
    /\ pc = [c \in Callers |-> "check"]
    /\ ret = [c \in Callers |-> NotReturned]

\* what no step of a caller touches
RaceRest == UNCHANGED <<calls, running, prev, last, pureVars, job>>

\* `if not dir_path.exists():`
RaceCheck(c) ==
    /\ RaceRest
    /\ pc[c] = "check"
    /\ pc' = [pc EXCEPT ![c] = IF IsCached(disk, RaceDir) THEN "read"
                               ELSE IF job.o.kind = "clone" THEN "makedirs"
                               ELSE "request"]
    /\ UNCHANGED <<disk, ret>>

\* get_video_title and get_transcript, or requests.get
RaceRequest(c) ==
    /\ RaceRest
    /\ pc[c] = "request"
    /\ pc' = [pc EXCEPT ![c] = "makedirs"]
    /\ UNCHANGED <<disk, ret>>

\* os.makedirs(dir_path, exist_ok=True)
RaceMakedirs(c) ==
    /\ RaceRest
    /\ pc[c] = "makedirs"
    /\ disk' = makedirs(disk, RaceDir)
    /\ pc' = [pc EXCEPT ![c] = IF job.o.kind = "clone" THEN "clone" ELSE "open"]
    /\ UNCHANGED ret

\* `with open(file_path, 'w') as fp:` creates the file, or empties it
RaceOpen(c) ==
    /\ RaceRest
    /\ pc[c] = "open"
    /\ disk' = WriteFile(disk, RaceFile.path, RaceFile.form, "").disk
    /\ pc' = [pc EXCEPT ![c] = "write"]
    /\ UNCHANGED ret

\* fp.write(...) and the close at the end of the with block
RaceWrite(c) ==
    /\ RaceRest
    /\ pc[c] = "write"
    /\ disk' = WriteFile(disk, RaceFile.path, RaceFile.form, RaceFile.body).disk
    /\ pc' = [pc EXCEPT ![c] = "read"]
    /\ UNCHANGED ret

\* Repo.clone_from(url, dir_path) starts: git refuses a directory that is not
\* empty (GitCommandError), and otherwise creates .git in it
RaceClone(c) ==
    /\ RaceRest
    /\ pc[c] = "clone"
    /\ IF disk[RaceDir] # {}
       THEN /\ ret' = [ret EXCEPT ![c] = [ok |-> FALSE, files |-> {},
                                          exc |-> "GitCommandError"]]
            /\ pc' = [pc EXCEPT ![c] = "done"]
            /\ UNCHANGED disk
       ELSE /\ disk' = [disk EXCEPT ![RaceDir] = {SubDir(".git")}]
            /\ pc' = [pc EXCEPT ![c] = "checkout"]
            /\ UNCHANGED ret

\* Repo.clone_from ends: the working tree is checked out
RaceCheckout(c) ==
    /\ RaceRest
    /\ pc[c] = "checkout"
    /\ disk' = [disk EXCEPT ![RaceDir] = RepoTree(job.o.clone)]
    /\ pc' = [pc EXCEPT ![c] = "read"]
    /\ UNCHANGED ret

\* `files = read_from_disk(dir_path); return files`
RaceRead(c) ==
    /\ RaceRest
    /\ pc[c] = "read"
    /\ ret' = [ret EXCEPT ![c] = Handed(read_from_disk(disk, RaceDir))]
    /\ pc' = [pc EXCEPT ![c] = "done"]
    /\ UNCHANGED disk

NextRace ==
    \E c \in Callers :
        \/ RaceCheck(c)
        \/ RaceRequest(c)
        \/ RaceMakedirs(c)
        \/ RaceOpen(c)
        \/ RaceWrite(c)
        \/ RaceClone(c)
        \/ RaceCheckout(c)
        \/ RaceRead(c)

SpecRace == InitRace /\ [][NextRace]_vars

-----------------------------------------------------------------------------
(* Claims about fetch_online and fetch_utf8 *)

\* `dir_path = self.cache_dir / url_sane` for the URI of a source
CacheDirOf(src) == PathJoin(cache_dir, sanitized(preprocessed(src.uri)))

\* the directory a call reads back: the local path, or the cache directory
ReadDirOf(c) ==
    IF c.local THEN normalize_local_uri(c.source.uri) ELSE CacheDirOf(c.source)

\* the URL is routed to the video branch of "Save if not cached"
IsVideoUrl(url) ==
    /\ ~Contains(url, "github.com")
    /\ Contains(url, "youtube.com") \/ Contains(url, "youtu.be")

\* C1: when a call of fetch_online has succeeded with a non-empty result and
\* the next call is for the same URL, with nothing changed upstream or on
\* disk in between, the second call makes no network request and returns the
\* same set of (path, bytes) pairs as the first.
C1_WarmCacheIdempotent ==
    [][(/\ calls' = calls + 1
        /\ last.made /\ ~last.local
        /\ last.fetched /\ last.files # {}
        /\ last'.source.uri = last.source.uri)
       => (/\ last'.answer.kind = "none"
           /\ last'.fetched
           /\ last'.files = last.files)]_vars

\* two calls in a row for one URL, the first a non-empty success
C1_Witness ==
    /\ prev.made /\ ~prev.local /\ prev.fetched /\ ~prev.empty
    /\ prev.request # "none"
    /\ last.made /\ last.source = prev.source
    /\ last.answer.kind = "none" /\ last.files # {}

\* C2: for a URL routed to the generic HTTP downloader, every network failure
\* of the GET request (a connection failure as well as an SSL failure) makes
\* fetch_online return an empty list, and no exception reaches the caller of
\* fetch_online or of fetch_utf8.
C2_NetworkFailureIsEmpty ==
    (last.made /\ last.answer.kind = "get" /\ last.answer.neterr # "-")
        => /\ last.fetched /\ last.files = {}
           /\ last.ok /\ last.docs = {} /\ last.excs = {}

\* C3: a non-2xx response makes fetch_online return an empty list without an
\* exception, and the batch goes on: the other sources are still fetched.
C3_Non2xxIsEmpty ==
    (/\ last.made /\ last.answer.kind = "get"
     /\ last.answer.neterr = "-" /\ last.answer.status # 200)
        => /\ last.fetched /\ last.files = {}
           /\ last.ok /\ last.docs = {} /\ last.excs = {}
           /\ running

\* a source answered 404 or 500, and the next source fetched and returned
C3_Witness ==
    /\ prev.made /\ prev.request = "get" /\ prev.status \in {404, 500}
    /\ prev.fetched /\ prev.empty /\ prev.ok
    /\ last.made /\ last.source # prev.source
    /\ last.answer.kind # "none"
    /\ last.ok /\ last.docs # {}

\* C4: when the clone of a repository URL fails, the exception of
\* Repo.clone_from leaves fetch_online and reaches the caller; the failure is
\* not turned into an empty list.
C4_CloneFailurePropagates ==
    (last.made /\ last.answer.kind = "clone" /\ last.answer.clone = "fail")
        => /\ ~last.fetched /\ ~last.ok
           /\ last.excs = {"GitCommandError"}
           /\ last.docs = {}

\* a call whose clone failed
C4_Witness ==
    /\ last.made /\ last.answer.kind = "clone" /\ last.answer.clone = "fail"
    /\ "GitCommandError" \in last.excs

\* C5: on a cache miss for a video URL from which no identifier can be
\* extracted, the downloader logs an error, creates no cache directory and
\* writes nothing, fetch_online returns an empty list, and a following call
\* with the same URL takes the cache-miss path again.
C5_NoVideoIdLeavesNoCache ==
    [][/\ (/\ calls' = calls + 1
           /\ IsVideoUrl(preprocessed(last'.source.uri))
           /\ extract_video_id(preprocessed(last'.source.uri)) = None
           /\ ~exists(disk, CacheDirOf(last'.source)))
          => (/\ LogNoVideoId \in last'.logs
              /\ last'.answer.kind = "none"
              /\ disk' = disk
              /\ ~exists(disk', CacheDirOf(last'.source))
              /\ last'.fetched /\ last'.files = {})
       /\ (/\ calls' = calls + 1
           /\ last.made /\ LogNoVideoId \in last.logs
           /\ last'.source.uri = last.source.uri)
          => (LogFetching \in last'.logs /\ LogNoVideoId \in last'.logs)
      ]_vars

\* the same video URL without an identifier fetched twice in a row, each time
\* on the cache-miss path
C5_Witness ==
    /\ prev.made /\ LogFetching \in prev.logs /\ LogNoVideoId \in prev.logs
    /\ last.made /\ last.source = prev.source
    /\ IsVideoUrl(preprocessed(last.source.uri))
    /\ LogFetching \in last.logs /\ LogNoVideoId \in last.logs
    /\ last.fetched /\ last.files = {}
    /\ ~exists(disk, CacheDirOf(last.source))

\* C6: for a video URL with an extractable identifier and a retrievable
\* transcript, when the page metadata gives no title the downloader falls
\* back to the identifier and writes the transcript to
\* <cacheDir>/<videoId>.txt, and fetch_online returns that file.
C6_TitleFallsBackToVideoId ==
    (/\ last.made /\ last.answer.kind = "video"
     /\ last.answer.page = "no meta" /\ last.answer.transcript = "lines")
        => /\ last.fetched
           /\ \E f \in last.files :
                 f.path = PathJoin(CacheDirOf(last.source),
                              extract_video_id(preprocessed(last.source.uri))
                                  \o ".txt")

\* C11: read_unicode decodes strictly only for .txt and .json (bytes that are
\* not UTF-8 raise a decode error); a file whose extension is none of .pdf,
\* .html, .txt, .json is decoded as UTF-8 ignoring invalid sequences and never
\* fails, so that when every file the read-back returned has such an
\* extension (.py, .md, .ipynb, ...) fetch_utf8 does not raise.
C11_LossyDecodeNeverFails ==
    (last.made /\ last.fetched) =>
        /\ \A f \in last.files :
              /\ Suffix(f.path) \in {".txt", ".json"}
                    => (read_unicode(f).ok <=> f.utf8)
              /\ Suffix(f.path) \notin {".pdf", ".html", ".txt", ".json"}
                    => /\ read_unicode(f).ok
                       /\ read_unicode(f).text = <<"decode ignore", f.form, f.body>>
        /\ (\A f \in last.files :
               Suffix(f.path) \notin {".pdf", ".html", ".txt", ".json"})
              => (last.ok /\ last.excs = {})

\* the download of a call on a cold cache failed: the downloader raised
\* (clone error, connection error, title error of the HTML branch, failed
\* write), or it logged its failure and fetch_online returned []
DownloadFailed(c) ==
    /\ c.made /\ ~c.local
    /\ LogFetching \in c.logs
    /\ \/ ~c.fetched /\ ~c.read
       \/ c.logs \cap {LogNoVideoId, LogOccurred, LogSSL, LogNotFound} # {}

\* C12: whenever a call of fetch_online on a cold cache fails to obtain
\* content (it raises, or it returns [] because the download failed), the
\* cache directory of the URL does not exist afterwards, so that the next call
\* with the same URL downloads again instead of hitting the cache.
C12_FailedFetchLeavesNoCache ==
    DownloadFailed(last) => ~exists(disk, CacheDirOf(last.source))

\* C13: every file a downloader writes into the cache directory is seen by the
\* read-back: after a generic HTTP download answered 200, whatever extension
\* _get_extension gave the file (.html, .json, .txt, .pdf), fetch_online
\* returns a non-empty list holding the file just written, on that call and
\* on the cache hit that follows.
C13_WrittenFileIsReadBack ==
    /\ (/\ last.made /\ last.answer.kind = "get"
         /\ last.answer.neterr = "-" /\ last.answer.status = 200
         /\ last.read)
        => /\ last.fetched
           /\ \E f \in last.files :
                 /\ DirName(f.path) = CacheDirOf(last.source)
                 /\ Suffix(f.path) = _get_extension(last.answer.ctype)
    /\ (/\ prev.made /\ prev.request = "get" /\ prev.status = 200
         /\ prev.fetched
         /\ last.made /\ last.source = prev.source
         /\ last.answer.kind = "none")
        => (last.fetched /\ last.files # {})

\* C14: when two callers run fetch_online at once for one URL on a cold cache
\* and the downloads succeed, then in every interleaving neither call raises
\* and each returns the complete file list with the full content (no caller
\* sees the cache directory existing but empty, or a file cut short by the
\* other's write), and the disk ends as one download leaves it.
C14_ConcurrentCallersComplete ==
    /\ \A c \in Callers :
          pc[c] = "done" => (ret[c].ok /\ ret[c].files = Lone(job).files)
    /\ (\A c \in Callers : pc[c] = "done") => disk = Lone(job).disk

\* C10: reading a directory back returns exactly the files directly in it
\* whose extension is in FILETYPES and skips the others without raising
\* (stated here for directories in which no subdirectory carries such an
\* extension); and through fetch_utf8 a directory holding doc.pdf and
\* notes.exe gives exactly one normalized document, the one for doc.pdf.
C10_ReadBackAllowListed ==
    LET dir     == ReadDirOf(last)
        entries == IF is_dir(disk, dir) THEN iterdir(disk, dir) ELSE {}
        files   == {e \in entries : e.kind = "file"}
        listed  == {e \in files : Suffix(e.name) \in FILETYPES}
        read    == /\ last.made /\ last.read
                   /\ is_dir(disk, dir)
                   /\ \A e \in entries \ files : Suffix(e.name) \notin FILETYPES
    IN  /\ read =>
              /\ last.fetched
              /\ {f.path : f \in last.files}
                     = {PathJoin(dir, e.name) : e \in listed}
        /\ (read /\ {e.name : e \in files} = {"doc.pdf", "notes.exe"}) =>
              /\ last.ok
              /\ {doc[1] : doc \in last.docs} = {PathJoin(dir, "doc.pdf")}
              /\ Cardinality(last.docs) = 1

-----------------------------------------------------------------------------
(* Claims about the pure functions *)

\* C7: _get_extension tests whether the content-type header contains a
\* mapping key: a header containing 'text/html' gives '.html', one containing
\* 'application/json' gives '.json', 'text/plain' gives '.txt',
\* 'application/pdf' gives '.pdf', and a header containing no key (the empty
\* header included) gives '.txt'.
C7_ExtensionByContainment ==
    phase = "once" =>
        /\ \A i \in 1..Len(mapping) :
               Contains(arg, mapping[i][1]) => res = mapping[i][2]
        /\ (\A i \in 1..Len(mapping) : ~Contains(arg, mapping[i][1]))
               => res = ".txt"

\* C8: for every input, sanitize returns at most 255 characters, with no two
\* consecutive underscores and no underscore at either end.
C8_SanitizeSafe ==
    phase # "input" =>
        /\ Len(res) <= 255
        /\ ~Contains(res, "__")
        /\ ~StartsWith(res, "_")
        /\ ~EndsWith(res, "_")

\* C9: sanitize is idempotent: sanitize(sanitize(x)) = sanitize(x).
C9_SanitizeIdempotent ==
    phase = "twice" => res2 = res

=============================================================================
